---------------------------- MODULE Spec2Model ----------------------------
(***************************************************************************)
(* K-cup storefront: the cart ledger and the cart-to-order workflow.       *)
(*                                                                         *)
(* The durable store (tables products, cart_items, orders, order_items of  *)
(* shared-schema.ts) is the shared state.  HTTP handlers of routes         *)
(* (init-database.js, registerRoutes) run as requests; a handler that      *)
(* awaits more than one store statement is split at its awaits, one        *)
(* action per store statement, so that statements of different requests    *)
(* interleave as they do on the server.  Money is kept in cents            *)
(* (decimal(10,2) columns).                                                *)
(***************************************************************************)
EXTENDS Integers, Sequences, FiniteSets, TLC

\* ------------------------------------------------------------------ bounds
MaxProducts == 2
MaxCartItems == 2
MaxOrders == 1
MaxOrderItems == 2
MaxLines == 2
MaxQuantity == 2
\* the quantity a cart row reaches by add-to-cart calls served in sequence
MaxMergedQuantity == 4
MaxRequests == 2
\* orders in the store when the status updates begin
MaxStoredOrders == 2
MaxNotifications == 2
\* values of the serial admin_users.id
MaxAdminUsers == 3

\* ------------------------------------------------------------------ inputs
Sessions == {"s1", "s2"}
Slots == 1..MaxRequests
ProductIds == 1..MaxProducts
\* unit prices, in cents
Prices == {1999, 2499}
\* a field the client left out of the request body
Missing == 0 - 1
\* quantities a client sends
Quantities == {1, 2}
\* totalAmount values a client sends, in cents
Totals == {1999, 4998}
Customers == {"alice"}
\* customizations values a client sends (free-form json)
Customizations == {"null", "milk", "sugar"}
\* a null id (the serial ids start at 1)
NullId == 0
\* quantities a client sends to PUT /api/cart/:id
UpdateQuantities == {0, 1, 2}
\* status values an admin sends to PUT /api/orders/:id/status
Statuses == {"pending", "completed", "cancelled"}
\* the :id values sent to PUT /api/orders/:id/status
OrderIds == 1..MaxStoredOrders

\* ------------------------------------------------------------------ state
VARIABLES
  products,        \* table products: rows [id, price, updated]
  nextProductId,   \* serial products.id
  cartItems,       \* table cart_items: rows [id, sessionId, productId, quantity]
  nextCartItemId,  \* serial cart_items.id
  orders,          \* table orders: rows [id, customerName, totalAmount, status, updated]
  nextOrderId,     \* serial orders.id
  orderItems,      \* table order_items: rows [id, orderId, productId, quantity, price]
  nextOrderItemId, \* serial order_items.id
  req,             \* the requests being served, per slot: handler position and locals
                   \* (and cartSerial, history: the cart_items serial when a
                   \* place-order call began)
  res,             \* the response sent last: [op, status, orderId]
  acked,           \* history: per (session, product), the add-to-cart calls answered 201
  adminUsers,      \* table admin_users: rows [id, username, password, email]
  nextAdminUserId, \* serial admin_users.id
  notifications,   \* table notifications: rows [id, productId, type, message]
  nextNotificationId, \* serial notifications.id
  seed,            \* the position of the seeding script, "idle" when it does not run
  query            \* the client's query: [pc, on401, failureCount, data, error]

vars == <<products, nextProductId, cartItems, nextCartItemId, orders, nextOrderId,
          orderItems, nextOrderItemId, req, res, acked,
          adminUsers, nextAdminUserId, notifications, nextNotificationId, seed, query>>

\* the admin directory, the notifications, the seeding script and the
\* client's query
admin == <<adminUsers, nextAdminUserId, notifications, nextNotificationId, seed, query>>

store == <<products, nextProductId, cartItems, nextCartItemId, orders, nextOrderId,
           orderItems, nextOrderItemId>>

\* the customizations column is null, the body left customizations out
NoCustomizations == "null"

NoItem == [productId |-> 0, quantity |-> 0, customizations |-> NoCustomizations]
NoRow == [id |-> 0, sessionId |-> "", productId |-> 0, quantity |-> 0,
          customizations |-> NoCustomizations]

\* no body of an admin-register call
NoUser == [username |-> "", password |-> "", email |-> ""]

\* no row of admin_users
NoAdminUser == [id |-> 0, username |-> "", password |-> <<>>, email |-> ""]

\* a slot that serves no request
IdleSlot == [pc |-> "idle", op |-> "none", sessionId |-> "", item |-> NoItem,
             existing |-> NoRow, lines |-> <<>>, k |-> 0, orderId |-> 0,
             cartSerial |-> 0, user |-> NoUser, adminUser |-> NoAdminUser]

\* no error was thrown: the message of an Error is the status of the
\* response (0: there was none) and its text; has401: the text has "401" in it
NoError == [status |-> 0, has401 |-> FALSE, thrown |-> FALSE]

\* the client runs no query
NoQuery == [pc |-> "idle", on401 |-> "throw", failureCount |-> 0, data |-> "none",
            error |-> NoError]

\* the absence of a token
NoToken == [username |-> "", key |-> "", expired |-> FALSE]

\* a response: the operation, the HTTP status, the id of the order it is
\* about, the token it carries (login), and prev, history: the status the
\* order had before a status update, the username an admin-register call
\* sent, "price" when a product update changed a price, "absent" when a
\* cart removal or clear found no row to delete
Response(op, status, orderId) ==
  [op |-> op, status |-> status, orderId |-> orderId, token |-> NoToken, prev |-> ""]

NoResponse == Response("none", 0, 0)

\* res.status(status).json(...): the response is sent and the slot is free
Respond(r, op, status, orderId) ==
  /\ req' = [req EXCEPT ![r] = IdleSlot]
  /\ res' = Response(op, status, orderId)

\* a new request is served in the first free slot (the slots are anonymous)
Free(r) ==
  /\ req[r].pc = "idle"
  /\ \A r2 \in Slots : r2 < r => req[r2].pc # "idle"

Init ==
  /\ products = {}
  /\ nextProductId = 1
  /\ cartItems = {}
  /\ nextCartItemId = 1
  /\ orders = {}
  /\ nextOrderId = 1
  /\ orderItems = {}
  /\ nextOrderItemId = 1
  /\ req = [r \in Slots |-> IdleSlot]
  /\ res = NoResponse
  /\ acked = [s \in Sessions |-> [p \in ProductIds |-> [n |-> 0, sum |-> 0, last |-> NoCustomizations]]]
  /\ adminUsers = {}
  /\ nextAdminUserId = 1
  /\ notifications = {}
  /\ nextNotificationId = 1
  /\ seed = "idle"
  /\ query = NoQuery

\* ------------------------------------------------------------------ admin tokens

\* the key the tokens are signed and verified with
jwtSecret == "secret"

Usernames == {"admin", "bob"}

\* jwt.sign({username}, jwtSecret, {expiresIn: '24h'}): a fresh token
sign(username) == [username |-> username, key |-> jwtSecret, expired |-> FALSE]

\* what a request carries as its bearer token: nothing, a token the server
\* issued, fresh or older than 24 hours, or one signed with another key
Tokens ==
  {NoToken} \cup [username : {"admin"}, key : {jwtSecret, "other"}, expired : BOOLEAN]

\* jwt.verify(token, jwtSecret): the signature and the expiry are checked
verify(token) == token.key = jwtSecret /\ ~token.expired

\* a faulty middleware: a token is asked for, and not verified
authenticateAdminUnverified(token) == token # NoToken

\* authenticateAdmin: next() is called when there is a token and it verifies
authenticateAdmin(token) == token # NoToken /\ verify(token)

\* authenticateAdmin, the two 401 responses: the handler is not run
Unauthorized ==
  /\ res' = Response("admin", 401, 0)
  /\ UNCHANGED <<store, admin, req, acked>>

\* ------------------------------------------------------------------ catalog

\* storage.getProduct: the rows of products with this id (none or one)
getProduct(id) == {p \in products : p.id = id}

\* a foreign key products.id is referenced by cart_items.productId,
\* order_items.productId and notifications.productId (no ON DELETE action):
\* a referenced product cannot go
Referenced(id) ==
  \/ \E c \in cartItems : c.productId = id
  \/ \E i \in orderItems : i.productId = id
  \/ \E n \in notifications : n.productId = id

\* storage.updateProduct: UPDATE products SET price, updatedAt WHERE id
updateProduct(id, price) ==
  {IF p.id = id THEN [p EXCEPT !.price = price, !.updated = TRUE] ELSE p : p \in products}

\* POST /api/products (admin): INSERT INTO products, answered 201; the body
\* leaves inStock out and the column takes its default
CreateProduct(price) ==
  /\ nextProductId <= MaxProducts
  /\ products' = products \cup {[id |-> nextProductId, price |-> price, updated |-> FALSE,
                                 inStock |-> TRUE]}
  /\ nextProductId' = nextProductId + 1
  /\ res' = Response("product", 201, 0)
  /\ UNCHANGED <<admin, cartItems, nextCartItemId, orders, nextOrderId, orderItems,
                 nextOrderItemId, req, acked>>

\* PUT /api/products/:id (admin): storage.updateProduct, answered 200 with
\* the row updated, or with no body when no row has the id
UpdateProduct(id, price) ==
  /\ products' = updateProduct(id, price)
  /\ res' = [Response("product", 200, 0) EXCEPT
               !.prev = IF \E p \in getProduct(id) : p.price # price THEN "price" ELSE ""]
  /\ UNCHANGED <<admin, nextProductId, cartItems, nextCartItemId, orders, nextOrderId,
                 orderItems, nextOrderItemId, req, acked>>

\* storage.updateProduct with {inStock}: UPDATE products SET in_stock,
\* updatedAt WHERE id
setInStock(id, inStock) ==
  {IF p.id = id THEN [p EXCEPT !.inStock = inStock, !.updated = TRUE] ELSE p : p \in products}

\* PUT /api/products/:id (admin) with the body {inStock}
UpdateProductStock(id, inStock) ==
  /\ products' = setInStock(id, inStock)
  /\ res' = Response("product", 200, 0)
  /\ UNCHANGED <<admin, nextProductId, cartItems, nextCartItemId, orders, nextOrderId,
                 orderItems, nextOrderItemId, req, acked>>

\* DELETE /api/products/:id (admin): storage.deleteProduct, answered 204
\* (also when no row has the id); the store rejects the delete of a
\* referenced product and the handler answers 500
DeleteProduct(id) ==
  /\ products' = IF Referenced(id) THEN products ELSE products \ getProduct(id)
  /\ res' = Response("product", IF Referenced(id) THEN 500 ELSE 204, 0)
  /\ UNCHANGED <<admin, nextProductId, cartItems, nextCartItemId, orders, nextOrderId,
                 orderItems, nextOrderItemId, req, acked>>

\* ------------------------------------------------------------------ cart ledger

\* the rows of cart_items of one (sessionId, productId) pair
CartRows(sid, pid) == {c \in cartItems : c.sessionId = sid /\ c.productId = pid}

\* storage.getCartItems, what GET /api/cart answers: the rows of the
\* session, each with the products row the left join finds (none for a
\* null productId)
getCartItems(sid) ==
  {[id |-> c.id, sessionId |-> c.sessionId, productId |-> c.productId,
    quantity |-> c.quantity, customizations |-> c.customizations,
    product |-> getProduct(c.productId)] : c \in {x \in cartItems : x.sessionId = sid}}

\* a faulty merge: the new quantity replaces the one in the row
mergedQuantityOverwrites(existing, item) == item.quantity

\* addToCart, existing-item branch: the quantity written to the row
mergedQuantity(existing, item) == existing.quantity + item.quantity

\* UPDATE cart_items SET quantity WHERE id
setQuantity(id, quantity) ==
  {IF c.id = id THEN [c EXCEPT !.quantity = quantity] ELSE c : c \in cartItems}

\* a faulty clear: the DELETE without its WHERE
clearCartOfEverySession(sid) == {}

\* a faulty clear: the rows of the other sessions are deleted
clearCartOfOthers(sid) == {c \in cartItems : c.sessionId = sid}

\* storage.clearCart: DELETE FROM cart_items WHERE session_id
clearCart(sid) == {c \in cartItems : c.sessionId # sid}

\* a faulty removal: the rows up to the id are deleted
removeFromCartUpTo(id) == {c \in cartItems : c.id > id}

\* storage.removeFromCart: DELETE FROM cart_items WHERE id
removeFromCart(id) == {c \in cartItems : c.id # id}

\* the rows the SELECT of storage.addToCart returns: those of the pair, and
\* none for a null productId (product_id = NULL is true of no row)
selectExisting(sid, pid) == IF pid = NullId THEN {} ELSE CartRows(sid, pid)

\* POST /api/cart, up to the first store statement of storage.addToCart:
\* the SELECT of the existing row of the pair ([existingItem] = the first
\* row the store returns, any of them when there are several); sids: the
\* sessions of the clients, pids: the productId values they send, payloads:
\* the customizations, cap: the quantity a row may reach in the model
AddToCartSelectOf(r, sids, pids, payloads, cap) ==
  /\ Free(r)
  /\ \E sid \in sids, pid \in pids, q \in Quantities, cz \in payloads :
     \E e \in (IF selectExisting(sid, pid) = {} THEN {NoRow} ELSE selectExisting(sid, pid)) :
       /\ e.quantity + q <= cap
       /\ req' = [req EXCEPT ![r] =
                    [IdleSlot EXCEPT !.pc = "add_write", !.op = "add", !.sessionId = sid,
                                     !.item = [productId |-> pid, quantity |-> q,
                                               customizations |-> cz],
                                     !.existing = e]]
  /\ UNCHANGED <<store, admin, res, acked>>

\* the clients of every session
AddToCartSelectWith(r, pids, payloads) ==
  AddToCartSelectOf(r, Sessions, pids, payloads, MaxQuantity)

\* the clients send no customizations
AddToCartSelectFrom(r, pids) == AddToCartSelectWith(r, pids, {NoCustomizations})

\* the clients send the id of a product
AddToCartSelect(r) == AddToCartSelectFrom(r, ProductIds)

\* the clients send the id of a product, or null (insertCartItemSchema takes
\* productId as optional and nullable)
AddToCartSelectAny(r) == AddToCartSelectFrom(r, ProductIds \cup {NullId})

\* the clients send the id of a product, call after call
AddToCartSelectMany(r) ==
  AddToCartSelectOf(r, Sessions, ProductIds, {NoCustomizations}, MaxMergedQuantity)

\* the clients of one session send the id of a product, with or without
\* customizations
AddToCartSelectCustom(r) ==
  AddToCartSelectOf(r, {"s1"}, ProductIds, Customizations, MaxQuantity)

\* the clients of one session send the id of the first product
AddToCartSelectFirst(r) ==
  AddToCartSelectOf(r, {"s1"}, {1}, {NoCustomizations}, MaxQuantity)

\* a faulty UPDATE: the customizations of the new call are written as well
updateExistingWithCustomizations(existing, item) ==
  {IF c.id = existing.id
     THEN [c EXCEPT !.quantity = mergedQuantity(existing, item),
                    !.customizations = item.customizations]
     ELSE c : c \in cartItems}

\* addToCart, existing-item branch: UPDATE cart_items SET quantity WHERE id;
\* no other column is set
updateExisting(existing, item) ==
  setQuantity(existing.id, mergedQuantity(existing, item))

\* storage.addToCart, second store statement, and the response: UPDATE of
\* the row read (no row is left to update when it was deleted meanwhile), or
\* INSERT of a new row, which the store rejects when the productId is not
\* null and not in the catalog (foreign key), and then the handler answers
\* 500; the rejected INSERT has drawn its id from the serial, and the
\* sequence does not give it back
AddToCartWriteStore(r) ==
  LET s == req[r]
      hasProduct == s.item.productId = NullId \/ getProduct(s.item.productId) # {}
  IN  /\ s.pc = "add_write"
      /\ IF s.existing # NoRow
           THEN /\ cartItems' = updateExisting(s.existing, s.item)
                /\ nextCartItemId' = nextCartItemId
                /\ Respond(r, "add", 201, 0)
           ELSE /\ nextCartItemId <= MaxCartItems
                /\ nextCartItemId' = nextCartItemId + 1
                /\ IF hasProduct
                     THEN /\ cartItems' = cartItems \cup
                               {[id |-> nextCartItemId, sessionId |-> s.sessionId,
                                 productId |-> s.item.productId,
                                 quantity |-> s.item.quantity,
                                 customizations |-> s.item.customizations]}
                          /\ Respond(r, "add", 201, 0)
                     ELSE /\ cartItems' = cartItems
                          /\ Respond(r, "add", 500, 0)
      /\ UNCHANGED <<admin, products, nextProductId, orders, nextOrderId, orderItems,
                     nextOrderItemId>>

AddToCartWrite(r) == AddToCartWriteStore(r) /\ UNCHANGED acked

\* the same step, with the history of the calls answered 201 kept
AddToCartWriteAcked(r) ==
  /\ AddToCartWriteStore(r)
  /\ acked' =
       IF res'.status = 201
         THEN [acked EXCEPT ![req[r].sessionId][req[r].item.productId] =
                 [n |-> @.n + 1, sum |-> @.sum + req[r].item.quantity,
                  last |-> req[r].item.customizations]]
         ELSE acked

\* PUT /api/cart/:id of a client with session sid (the handler does not read
\* the session): storage.updateCartItem, answered 200 with the row updated,
\* or with no body when no row has the id
UpdateCartItem(sid, id, q) ==
  /\ cartItems' = setQuantity(id, q)
  /\ res' = Response("update", 200, 0)
  /\ UNCHANGED <<admin, products, nextProductId, nextCartItemId, orders, nextOrderId,
                 orderItems, nextOrderItemId, req, acked>>

\* DELETE /api/cart/:id of a client with session sid (the handler does not
\* read the session): storage.removeFromCart, answered 204
RemoveFromCart(sid, id) ==
  /\ cartItems' = removeFromCart(id)
  /\ res' = [Response("remove", 204, 0) EXCEPT
               !.prev = IF \E c \in cartItems : c.id = id THEN "" ELSE "absent"]
  /\ UNCHANGED <<admin, products, nextProductId, nextCartItemId, orders, nextOrderId,
                 orderItems, nextOrderItemId, req, acked>>

\* DELETE /api/cart: storage.clearCart of the caller's session, answered 204
ClearCart(sid) ==
  /\ cartItems' = clearCart(sid)
  /\ res' = [Response("clear", 204, 0) EXCEPT
               !.prev = IF \E c \in cartItems : c.sessionId = sid THEN "" ELSE "absent"]
  /\ UNCHANGED <<admin, products, nextProductId, nextCartItemId, orders, nextOrderId,
                 orderItems, nextOrderItemId, req, acked>>

\* ------------------------------------------------------------------ order compiler

\* one line of the request body's orderItems; Missing marks an absent field
\* (the clients leave orderId out, as a rule)
LinePrices == {1999}
Lines ==
  [productId : ProductIds, quantity : Quantities, price : LinePrices, orderId : {Missing}]
  \cup [productId : {1}, quantity : {1}, price : {Missing}, orderId : {Missing}]

\* a line whose productId is null or left out (insertOrderItemSchema takes
\* productId as optional and nullable)
NullProductLine ==
  [productId |-> NullId, quantity |-> 1, price |-> 1999, orderId |-> Missing]

\* a line in which the client names an order of its own choice
ClientOrderLine == [productId |-> 1, quantity |-> 1, price |-> 1999, orderId |-> 1]

RECURSIVE SeqsUpTo(_, _)
SeqsUpTo(S, n) ==
  IF n = 0 THEN {<<>>}
  ELSE LET shorter == SeqsUpTo(S, n - 1)
       IN  shorter \cup {Append(q, x) : q \in {t \in shorter : Len(t) = n - 1}, x \in S}

\* status values a client sends in the body of POST /api/orders
BodyStatuses == {"delivered"}

\* the request bodies of POST /api/orders; hasItems: the body has an
\* orderItems key; hasStatus: it has a status key
Bodies ==
  [customerName : Customers, totalAmount : Totals,
   orderItems : SeqsUpTo(Lines, MaxLines), hasItems : {TRUE},
   hasStatus : {FALSE}, status : {""}]
  \cup [customerName : Customers \cup {""}, totalAmount : Totals, orderItems : {<<>>},
        hasItems : {FALSE}, hasStatus : {FALSE}, status : {""}]
  \cup [customerName : Customers, totalAmount : {1999}, orderItems : {<<>>},
        hasItems : {TRUE}, hasStatus : {TRUE}, status : BodyStatuses]
  \cup [customerName : Customers, totalAmount : {1999},
        orderItems : {<<NullProductLine>>, <<ClientOrderLine>>},
        hasItems : {TRUE}, hasStatus : {FALSE}, status : {""}]

\* the status of the orders row that storage.createOrder(orderInfo) inserts:
\* the body's own status, or the column default when the body has none
insertedStatus(body) == IF body.hasStatus THEN body.status ELSE "pending"

\* insertOrderSchema.parse(req.body): the customer fields are required text
insertOrderSchemaOk(body) == body.customerName # ""

\* insertOrderItemSchema.parse({...item, orderId}): quantity and price are
\* required
insertOrderItemSchemaOk(line) == line.quantity # Missing /\ line.price # Missing

\* a faulty catch block: the error is swallowed and 201 is answered
catchStatusCreated(isZodError) == 201

\* the status the catch block answers with: 400 for a ZodError, else 500
catchStatus(isZodError) == IF isZodError THEN 400 ELSE 500

\* a faulty catch block: the cart is cleared on the error path too
PlaceOrderCatchClearsCart(r, isZodError) ==
  /\ Respond(r, "order", catchStatus(isZodError), req[r].orderId)
  /\ cartItems' = clearCart(req[r].sessionId)
  /\ UNCHANGED <<products, nextProductId, nextCartItemId>>

\* the catch block of POST /api/orders: the error response; nothing is undone
PlaceOrderCatch(r, isZodError) ==
  /\ Respond(r, "order", catchStatus(isZodError), req[r].orderId)
  /\ UNCHANGED <<products, nextProductId, cartItems, nextCartItemId>>

\* the position of the handler after line k of the body was written
AfterLine(s, k) ==
  IF k >= Len(s.lines) THEN [s EXCEPT !.pc = "order_clear", !.k = k + 1]
  ELSE [s EXCEPT !.pc = "order_items", !.k = k + 1]

\* a faulty row: the orderId of the line is kept when the client sent one
orderItemRowOfClientOrder(id, orderId, line) ==
  [id |-> id, orderId |-> IF line.orderId # Missing THEN line.orderId ELSE orderId,
   productId |-> line.productId, quantity |-> line.quantity, price |-> line.price]

\* the order_items row written for a line of the body: the line's own
\* fields with orderId set to the new order's id
orderItemRow(id, orderId, line) ==
  [id |-> id, orderId |-> orderId, productId |-> line.productId,
   quantity |-> line.quantity, price |-> line.price]

\* POST /api/orders, the body fails insertOrderSchema.parse: the ZodError
\* is answered 400 before any store statement
PlaceOrderInvalid(r) ==
  /\ Free(r)
  /\ \E body \in Bodies : ~insertOrderSchemaOk(body)
  /\ Respond(r, "order", catchStatus(TRUE), 0)
  /\ UNCHANGED <<store, admin, acked>>

\* POST /api/orders, the INSERT of storage.createOrder does not reach the
\* store (the connection failed and no statement ran)
PlaceOrderCreateFails(r) ==
  /\ Free(r)
  /\ Respond(r, "order", catchStatus(FALSE), 0)
  /\ UNCHANGED <<store, admin, acked>>

\* POST /api/orders up to its first store statement: parse the body, then
\* storage.createOrder(orderInfo) with the body's own fields; a body without
\* orderItems makes the for-of throw as soon as the header is written.
\* maxOrderId: the last value of the serial in the model, sids: the sessions
\* of the clients, bodies: the bodies they send
PlaceOrderCreateFrom(r, maxOrderId, sids, bodies) ==
  /\ Free(r)
  /\ nextOrderId <= maxOrderId
  /\ nextOrderId' = nextOrderId + 1
  /\ \E sid \in sids, body \in {b \in bodies : insertOrderSchemaOk(b)} :
       /\ orders' = orders \cup
            {[id |-> nextOrderId, customerName |-> body.customerName,
              totalAmount |-> body.totalAmount, status |-> insertedStatus(body),
              updated |-> FALSE]}
       /\ IF ~body.hasItems
            THEN Respond(r, "order", catchStatus(FALSE), nextOrderId)
            ELSE /\ req' = [req EXCEPT ![r] =
                      AfterLine([IdleSlot EXCEPT !.op = "order", !.sessionId = sid,
                                                 !.lines = body.orderItems,
                                                 !.orderId = nextOrderId,
                                                 !.cartSerial = nextCartItemId], 0)]
                 /\ res' = res
  /\ UNCHANGED <<admin, products, nextProductId, cartItems, nextCartItemId,
                 orderItems, nextOrderItemId, acked>>

\* the clients of every session, with every body
PlaceOrderCreate(r) == PlaceOrderCreateFrom(r, MaxOrders, Sessions, Bodies)

\* one turn of the order-items loop: parse line k (a ZodError is thrown
\* before any statement is sent), then storage.createOrderItem.  ok: the
\* INSERT reached the store (else the connection failed and no statement
\* ran).  The store rejects a productId that is not null and not in the
\* catalog (foreign key); the rejected INSERT has drawn its id from the
\* serial, and the sequence does not give it back
PlaceOrderItem(r, ok) ==
  LET s == req[r]
      line == s.lines[s.k]
  IN  /\ s.pc = "order_items"
      /\ IF ~insertOrderItemSchemaOk(line)
           THEN PlaceOrderCatch(r, TRUE) /\ UNCHANGED <<orderItems, nextOrderItemId>>
           ELSE IF ~ok
             THEN PlaceOrderCatch(r, FALSE) /\ UNCHANGED <<orderItems, nextOrderItemId>>
             ELSE /\ nextOrderItemId <= MaxOrderItems
                  /\ nextOrderItemId' = nextOrderItemId + 1
                  /\ IF line.productId # NullId /\ getProduct(line.productId) = {}
                       THEN PlaceOrderCatch(r, FALSE) /\ orderItems' = orderItems
                       ELSE /\ orderItems' = orderItems \cup
                                 {orderItemRow(nextOrderItemId, s.orderId, line)}
                            /\ req' = [req EXCEPT ![r] = AfterLine(s, s.k)]
                            /\ res' = res
                            /\ UNCHANGED <<products, nextProductId, cartItems,
                                           nextCartItemId>>
      /\ UNCHANGED <<orders, nextOrderId, acked, admin>>

\* the last store statement, storage.clearCart(sessionId), and the 201
\* response.  ok: the DELETE reached the store
PlaceOrderClear(r, ok) ==
  LET s == req[r]
  IN  /\ s.pc = "order_clear"
      /\ IF ok
           THEN /\ cartItems' = clearCart(s.sessionId)
                /\ Respond(r, "order", 201, s.orderId)
                /\ UNCHANGED <<products, nextProductId, nextCartItemId>>
           ELSE PlaceOrderCatch(r, FALSE)
      /\ UNCHANGED <<orders, nextOrderId, orderItems, nextOrderItemId, acked, admin>>

\* ------------------------------------------------------------------ order read

\* a faulty view: the products row is spread over the order_items row, so
\* its id and price replace the row's
orderItemViewSpreadsProduct(i, p) ==
  [id |-> p.id, orderId |-> i.orderId, productId |-> i.productId,
   quantity |-> i.quantity, price |-> p.price, product |-> p]

\* one element of OrderWithItems.orderItems: the order_items row with the
\* joined products row beside it
orderItemView(i, p) ==
  [id |-> i.id, orderId |-> i.orderId, productId |-> i.productId,
   quantity |-> i.quantity, price |-> i.price, product |-> p]

\* storage.getOrder: the header with the items whose product row is joined;
\* the empty set when there is no such order
getOrder(id) ==
  {[id |-> o.id, customerName |-> o.customerName, totalAmount |-> o.totalAmount,
    status |-> o.status, updated |-> o.updated,
    orderItems |-> {orderItemView(i, p) :
                      <<i, p>> \in {ip \in orderItems \X products :
                                      ip[1].orderId = o.id /\ ip[1].productId = ip[2].id}}]
     : o \in {x \in orders : x.id = id}}

\* storage.getOrders: every order, assembled the same way
getOrders == UNION {getOrder(o.id) : o \in orders}

\* ------------------------------------------------------------------ order status

\* an update that leaves a completed or cancelled order as it is
updateOrderStatusUnlessTerminal(id, status) ==
  {IF o.id = id /\ o.status \notin {"completed", "cancelled"}
     THEN [o EXCEPT !.status = status, !.updated = TRUE] ELSE o : o \in orders}

\* a faulty update: the WHERE matches the other orders
updateOrderStatusOfOthers(id, status) ==
  {IF o.id # id THEN [o EXCEPT !.status = status, !.updated = TRUE] ELSE o : o \in orders}

\* a faulty update: the UPDATE without its WHERE
updateOrderStatusOfAll(id, status) ==
  {[o EXCEPT !.status = status, !.updated = TRUE] : o \in orders}

\* storage.updateOrderStatus: UPDATE orders SET status, updatedAt WHERE id
updateOrderStatus(id, status) ==
  {IF o.id = id THEN [o EXCEPT !.status = status, !.updated = TRUE] ELSE o : o \in orders}

\* PUT /api/orders/:id/status (admin): answered 200 with the row updated, or
\* with no body when no order has the id
UpdateOrderStatus(id, status) ==
  /\ orders' = updateOrderStatus(id, status)
  /\ res' = [Response("status", 200, id) EXCEPT
               !.prev = IF \E o \in orders : o.id = id
                          THEN (CHOOSE o \in orders : o.id = id).status ELSE ""]
  /\ UNCHANGED <<admin, products, nextProductId, cartItems, nextCartItemId, nextOrderId,
                 orderItems, nextOrderItemId, req, acked>>

\* PUT /api/orders/:id/status behind authenticateAdmin
AdminUpdateOrderStatus(token, id, status) ==
  IF authenticateAdmin(token) THEN UpdateOrderStatus(id, status) ELSE Unauthorized

\* GET /api/orders behind authenticateAdmin: storage.getOrders is answered
AdminGetOrders(token) ==
  IF authenticateAdmin(token)
    THEN /\ res' = Response("orders", 200, 0)
         /\ UNCHANGED <<store, admin, req, acked>>
    ELSE Unauthorized

\* GET /api/orders/:id behind authenticateAdmin: 404 when there is no such order
AdminGetOrder(token, id) ==
  IF authenticateAdmin(token)
    THEN /\ res' = Response("order", IF getOrder(id) = {} THEN 404 ELSE 200, id)
         /\ UNCHANGED <<store, admin, req, acked>>
    ELSE Unauthorized

\* POST, PUT and DELETE /api/products behind authenticateAdmin
AdminCreateProduct(token, price) ==
  IF authenticateAdmin(token) THEN CreateProduct(price) ELSE Unauthorized

AdminUpdateProduct(token, id, price) ==
  IF authenticateAdmin(token) THEN UpdateProduct(id, price) ELSE Unauthorized

AdminDeleteProduct(token, id) ==
  IF authenticateAdmin(token) THEN DeleteProduct(id) ELSE Unauthorized

\* ------------------------------------------------------------------ admin directory

\* the credentials the clients send
Passwords == {"admin123", "hunter2"}
Emails == {"admin@kcup.com", "bob@kcup.com"}

\* bcrypt.hash(password, 10): a value that is not the password
hash(password) == <<"bcrypt", password>>

\* a faulty comparison: every password is accepted
compareAny(password, hashed) == TRUE

\* bcrypt.compare(password, hashed)
compare(password, hashed) == hashed = hash(password)

\* storage.getAdminUser: the rows of admin_users with this username
getAdminUser(username) == {a \in adminUsers : a.username = username}

\* a faulty table: only email is unique
uniqueViolationOfEmail(user) == \E a \in adminUsers : a.email = user.email

\* admin_users: username and email are unique; the store rejects the INSERT
\* of a row that has the username or the email of another
uniqueViolation(user) ==
  \E a \in adminUsers : a.username = user.username \/ a.email = user.email

\* POST /api/admin/register up to its first store statement,
\* storage.getAdminUser: 400 when the username is taken; passwords: the
\* passwords the clients send
RegisterSelectWith(r, passwords) ==
  /\ Free(r)
  /\ \E username \in Usernames, password \in passwords, email \in Emails :
       IF getAdminUser(username) # {}
         THEN /\ res' = [Response("register", 400, 0) EXCEPT !.prev = username]
              /\ req' = req
         ELSE /\ req' = [req EXCEPT ![r] =
                   [IdleSlot EXCEPT !.pc = "register_insert", !.op = "register",
                                    !.user = [username |-> username, password |-> password,
                                              email |-> email]]]
              /\ res' = res
  /\ UNCHANGED <<store, admin, acked>>

\* the clients send every password
RegisterSelect(r) == RegisterSelectWith(r, Passwords)

\* POST /api/admin/register, after bcrypt.hash: storage.createAdminUser, 201;
\* 500 when the store rejects the INSERT (unique violation); the rejected
\* INSERT has drawn its id from the serial, and the sequence does not give
\* it back
RegisterInsert(r) ==
  LET s == req[r]
  IN  /\ s.pc = "register_insert"
      /\ nextAdminUserId <= MaxAdminUsers
      /\ nextAdminUserId' = nextAdminUserId + 1
      /\ IF uniqueViolation(s.user)
           THEN /\ adminUsers' = adminUsers
                /\ res' = [Response("register", 500, 0) EXCEPT !.prev = s.user.username]
           ELSE /\ adminUsers' = adminUsers \cup
                     {[id |-> nextAdminUserId, username |-> s.user.username,
                       password |-> hash(s.user.password), email |-> s.user.email]}
                /\ res' = [Response("register", 201, 0) EXCEPT !.prev = s.user.username]
      /\ req' = [req EXCEPT ![r] = IdleSlot]
      /\ UNCHANGED <<store, notifications, nextNotificationId, seed, query, acked>>

\* POST /api/admin/login up to its store statement, storage.getAdminUser:
\* 401 'Invalid credentials' when no row has the username, else the handler
\* goes on to bcrypt.compare with the row it read
LoginSelect(r, username, password) ==
  /\ Free(r)
  /\ IF getAdminUser(username) = {}
       THEN /\ res' = Response("login", 401, 0)
            /\ req' = req
       ELSE /\ \E a \in getAdminUser(username) :
                 req' = [req EXCEPT ![r] =
                   [IdleSlot EXCEPT !.pc = "login_compare", !.op = "login",
                                    !.user = [username |-> username, password |-> password,
                                              email |-> ""],
                                    !.adminUser = a]]
            /\ res' = res
  /\ UNCHANGED <<store, admin, acked>>

\* POST /api/admin/login, bcrypt.compare has resolved: 401 'Invalid
\* credentials' for a wrong password, else 200 with a fresh token of the
\* username of the row
LoginCompare(r) ==
  LET s == req[r]
  IN  /\ s.pc = "login_compare"
      /\ res' = IF compare(s.user.password, s.adminUser.password)
                  THEN [Response("login", 200, 0) EXCEPT !.token = sign(s.adminUser.username)]
                  ELSE Response("login", 401, 0)
      /\ req' = [req EXCEPT ![r] = IdleSlot]
      /\ UNCHANGED <<store, admin, acked>>

\* ------------------------------------------------------------------ seeding

\* the prices of the sample products, in cents, in the order of the INSERT
SamplePrices == <<2499, 2299, 1999, 2699, 1899, 2199, 2099, 4999, 3999, 2399>>

\* the products rows of the samples, the serial at nextId
sampleProducts(nextId) ==
  {[id |-> nextId + k - 1, price |-> SamplePrices[k], updated |-> FALSE, inStock |-> TRUE] :
     k \in 1..Len(SamplePrices)}

\* the admin_users row of the default admin
defaultAdmin(id) ==
  [id |-> id, username |-> "admin", password |-> hash("admin123"),
   email |-> "admin@kcup.com"]

\* existingProducts.length === 0
needsSampleProducts(existingProducts) == existingProducts = {}

\* existingAdmins.length === 0
needsDefaultAdmin(existingAdmins) == existingAdmins = {}

\* initializeDatabase up to its first statement: SELECT products LIMIT 1
SeedSelectProducts ==
  /\ seed = "idle"
  /\ seed' = IF needsSampleProducts(products) THEN "insert_products" ELSE "select_admins"
  /\ UNCHANGED <<store, adminUsers, nextAdminUserId, notifications, nextNotificationId, query, req, res, acked>>

\* INSERT of the sample products, in one statement
SeedInsertProducts ==
  /\ seed = "insert_products"
  /\ products' = products \cup sampleProducts(nextProductId)
  /\ nextProductId' = nextProductId + Len(SamplePrices)
  /\ seed' = "select_admins"
  /\ UNCHANGED <<cartItems, nextCartItemId, orders, nextOrderId, orderItems,
                 nextOrderItemId, adminUsers, nextAdminUserId, notifications, nextNotificationId, query,
                 req, res, acked>>

\* SELECT admin_users LIMIT 1; the script ends when there is an admin
SeedSelectAdmins ==
  /\ seed = "select_admins"
  /\ seed' = IF needsDefaultAdmin(adminUsers) THEN "insert_admin" ELSE "idle"
  /\ UNCHANGED <<store, adminUsers, nextAdminUserId, notifications, nextNotificationId, query, req, res, acked>>

\* INSERT of the default admin, and the end of the script; the store
\* rejects the row when another has its username or its email (the id the
\* INSERT drew from the serial is not given back), and the script ends in
\* its catch block
SeedInsertAdmin ==
  /\ seed = "insert_admin"
  /\ adminUsers' = IF uniqueViolation(defaultAdmin(nextAdminUserId))
                     THEN adminUsers
                     ELSE adminUsers \cup {defaultAdmin(nextAdminUserId)}
  /\ nextAdminUserId' = nextAdminUserId + 1
  /\ seed' = "idle"
  /\ UNCHANGED <<store, notifications, nextNotificationId, query, req, res, acked>>

\* ------------------------------------------------------------------ notifications

\* the bodies of POST /api/notifications: type and message are required,
\* productId is optional (NullId: the body has none)
Notices ==
  [type : {"order"}, message : {"ready"}, hasMessage : BOOLEAN,
   productId : ProductIds \cup {NullId}]

\* insertNotificationSchema.parse
insertNotificationSchemaOk(body) == body.hasMessage

\* storage.createNotification: INSERT INTO notifications, the id drawn
\* from the serial
createNotification(body) ==
  notifications \cup {[id |-> nextNotificationId, productId |-> body.productId,
                        type |-> body.type, message |-> body.message]}

\* POST /api/notifications behind authenticateAdmin: 400 for a body that
\* does not parse (no statement is sent), 201 with the row written; the
\* store rejects a productId that is not null and not in the catalog
\* (foreign key), answered 500, and the id the rejected INSERT drew from the
\* serial is not given back
AdminCreateNotification(token, body) ==
  IF authenticateAdmin(token)
    THEN /\ nextNotificationId <= MaxNotifications
         /\ IF ~insertNotificationSchemaOk(body)
              THEN /\ res' = Response("notification", 400, 0)
                   /\ UNCHANGED <<notifications, nextNotificationId>>
              ELSE /\ nextNotificationId' = nextNotificationId + 1
                   /\ IF body.productId # NullId /\ getProduct(body.productId) = {}
                        THEN /\ res' = Response("notification", 500, 0)
                             /\ notifications' = notifications
                        ELSE /\ notifications' = createNotification(body)
                             /\ res' = Response("notification", 201, 0)
         /\ UNCHANGED <<store, adminUsers, nextAdminUserId, seed, query, req, acked>>
    ELSE Unauthorized

\* GET /api/notifications behind authenticateAdmin
AdminGetNotifications(token) ==
  IF authenticateAdmin(token)
    THEN /\ res' = Response("notifications", 200, 0)
         /\ UNCHANGED <<store, admin, req, acked>>
    ELSE Unauthorized

\* ------------------------------------------------------------------ client queries

\* what fetch(url) gives: it rejects (failed, no response), or it resolves
\* with a response; has401: the text of the response has "401" in it
ReplyStatuses == {200, 400, 401, 403, 404, 500, 503}
Replies ==
  [failed : {FALSE}, status : ReplyStatuses, has401 : BOOLEAN]
  \cup {[failed |-> TRUE, status |-> 0, has401 |-> FALSE]}

UnauthorizedBehavior == {"returnNull", "throw"}

\* response.ok
resOk(reply) == reply.status \in 200..299

\* the TypeError of a fetch that rejects, and the Error of throwIfResNotOk,
\* new Error(`${res.status}: ${errorText || res.statusText}`)
errorOf(reply) ==
  IF reply.failed THEN [status |-> 0, has401 |-> FALSE, thrown |-> TRUE]
  ELSE [status |-> reply.status, has401 |-> reply.has401, thrown |-> TRUE]

\* new Error("401: Unauthorized")
Error401 == [status |-> 401, has401 |-> FALSE, thrown |-> TRUE]

\* error instanceof Error && error.message.includes("401"): the message is
\* the status, a colon and the text
messageIncludes401(error) == error.status = 401 \/ error.has401

\* the catch block of the query function: null for a message with "401" in
\* it when on401 is returnNull, else the error is thrown again
catchQuery(on401, error) ==
  IF messageIncludes401(error) /\ on401 = "returnNull"
    THEN [data |-> "null", error |-> NoError]
    ELSE [data |-> "none", error |-> error]

\* getQueryFn({on401})({queryKey}) for one outcome of fetch: the value it
\* resolves with, or the error it rejects with
getQueryFn(on401, reply) ==
  IF reply.failed THEN catchQuery(on401, errorOf(reply))
  ELSE IF reply.status = 401
    THEN IF on401 = "returnNull" THEN [data |-> "null", error |-> NoError]
         ELSE catchQuery(on401, Error401)
  ELSE IF ~resOk(reply) THEN catchQuery(on401, errorOf(reply))
  ELSE [data |-> "json", error |-> NoError]

\* queryClient.defaultOptions.queries.retry; failureCount: the failures of
\* the query before this one
retry(failureCount, error) ==
  IF messageIncludes401(error) THEN FALSE ELSE failureCount < 3

\* a query is started, or started again, with a query function of either
\* behaviour (the default one is on401: "throw")
QueryStart(on401) ==
  /\ query.pc \in {"idle", "done"}
  /\ query' = [NoQuery EXCEPT !.pc = "fetching", !.on401 = on401]
  /\ UNCHANGED <<store, adminUsers, nextAdminUserId, notifications, nextNotificationId, seed, req, res, acked>>

\* one run of the query function: the query ends with its value; when it
\* rejects, retry is asked, and the query waits for its next run or ends
\* with the error
QueryFetch(reply) ==
  LET out == getQueryFn(query.on401, reply)
  IN  /\ query.pc = "fetching"
      /\ query' =
           IF ~out.error.thrown
             THEN [query EXCEPT !.pc = "done", !.data = out.data, !.error = NoError]
           ELSE IF retry(query.failureCount, out.error)
             THEN [query EXCEPT !.pc = "waiting", !.failureCount = @ + 1,
                                !.error = out.error]
             ELSE [query EXCEPT !.pc = "done", !.error = out.error]
      /\ UNCHANGED <<store, adminUsers, nextAdminUserId, notifications, nextNotificationId, seed, req, res, acked>>

\* the retry delay is over: the query function runs again
QueryRetry ==
  /\ query.pc = "waiting"
  /\ query' = [query EXCEPT !.pc = "fetching"]
  /\ UNCHANGED <<store, adminUsers, nextAdminUserId, notifications, nextNotificationId, seed, req, res, acked>>

\* ------------------------------------------------------------------ system

CatalogNext ==
  \/ \E price \in Prices : CreateProduct(price)
  \/ \E id \in ProductIds, price \in Prices : UpdateProduct(id, price)
  \/ \E id \in ProductIds, inStock \in BOOLEAN : UpdateProductStock(id, inStock)
  \/ \E id \in ProductIds : DeleteProduct(id)

AddNext ==
  \/ \E r \in Slots : AddToCartSelectAny(r)
  \/ \E r \in Slots : AddToCartWrite(r)

\* the :id values the clients send
CartItemIds == 1..MaxCartItems

CartNext ==
  \/ \E sid \in Sessions, id \in CartItemIds, q \in UpdateQuantities :
       UpdateCartItem(sid, id, q)
  \/ \E sid \in Sessions, id \in CartItemIds : RemoveFromCart(sid, id)
  \/ \E sid \in Sessions : ClearCart(sid)

OrderNext ==
  \/ \E r \in Slots : PlaceOrderInvalid(r)
  \/ \E r \in Slots : PlaceOrderCreateFails(r)
  \/ \E r \in Slots : PlaceOrderCreate(r)
  \/ \E r \in Slots, ok \in BOOLEAN : PlaceOrderItem(r, ok)
  \/ \E r \in Slots, ok \in BOOLEAN : PlaceOrderClear(r, ok)

StatusNext == \E id \in OrderIds, status \in Statuses : UpdateOrderStatus(id, status)

Next == CatalogNext \/ AddNext \/ CartNext \/ OrderNext \/ StatusNext

Spec == Init /\ [][Next]_vars

\* the requests are served one after another: at most one is in flight
OneAtATime == Cardinality({r \in Slots : req'[r].pc # "idle"}) <= 1

NoneInFlight == \A r \in Slots : req[r].pc = "idle"

\* the cart ledger under add-to-cart calls alone, concurrently served
NextAdd ==
  \/ \E price \in Prices : CreateProduct(price)
  \/ \E r \in Slots : AddToCartSelect(r)
  \/ \E r \in Slots : AddToCartWriteAcked(r)

SpecAdd == Init /\ [][NextAdd]_vars

\* the same calls, one after another
NextAddSeq ==
  \/ (\E price \in Prices : CreateProduct(price)) /\ OneAtATime
  \/ (\E r \in Slots : AddToCartSelectMany(r)) /\ OneAtATime
  \/ (\E r \in Slots : AddToCartWriteAcked(r)) /\ OneAtATime

SpecAddSeq == Init /\ [][NextAddSeq]_vars

\* catalog edits and place-order calls, one after another
NextOrder ==
  \/ (\E price \in Prices : CreateProduct(price)) /\ OneAtATime
  \/ (\E id \in ProductIds, price \in Prices : UpdateProduct(id, price)) /\ OneAtATime
  \/ (\E r \in Slots : PlaceOrderInvalid(r)) /\ OneAtATime
  \/ (\E r \in Slots : PlaceOrderCreateFails(r)) /\ OneAtATime
  \/ (\E r \in Slots : PlaceOrderCreate(r)) /\ OneAtATime
  \/ (\E r \in Slots, ok \in BOOLEAN : PlaceOrderItem(r, ok)) /\ OneAtATime
  \/ (\E r \in Slots, ok \in BOOLEAN : PlaceOrderClear(r, ok)) /\ OneAtATime

SpecOrder == Init /\ [][NextOrder]_vars

\* add-to-cart and place-order calls, one after another
NextCheckout ==
  \/ (\E price \in Prices : CreateProduct(price)) /\ OneAtATime
  \/ (\E r \in Slots : AddToCartSelect(r)) /\ OneAtATime
  \/ (\E r \in Slots : AddToCartWrite(r)) /\ OneAtATime
  \/ (\E r \in Slots : PlaceOrderInvalid(r)) /\ OneAtATime
  \/ (\E r \in Slots : PlaceOrderCreateFails(r)) /\ OneAtATime
  \/ (\E r \in Slots : PlaceOrderCreate(r)) /\ OneAtATime
  \/ (\E r \in Slots, ok \in BOOLEAN : PlaceOrderItem(r, ok)) /\ OneAtATime
  \/ (\E r \in Slots, ok \in BOOLEAN : PlaceOrderClear(r, ok)) /\ OneAtATime

SpecCheckout == Init /\ [][NextCheckout]_vars

\* at most one add-to-cart call is in flight
OneAddAtATime == Cardinality({r \in Slots : req'[r].op = "add"}) <= 1

\* an add-to-cart call served concurrently with a place-order call, the
\* store accepting every statement
NextIsolation ==
  \/ (\E price \in Prices : CreateProduct(price)) /\ OneAddAtATime
  \/ (\E r \in Slots : AddToCartSelect(r)) /\ OneAddAtATime
  \/ (\E r \in Slots : AddToCartWrite(r)) /\ OneAddAtATime
  \/ (\E r \in Slots : PlaceOrderCreate(r)) /\ OneAddAtATime
  \/ (\E r \in Slots : PlaceOrderItem(r, TRUE)) /\ OneAddAtATime
  \/ (\E r \in Slots : PlaceOrderClear(r, TRUE)) /\ OneAddAtATime

SpecIsolation == Init /\ [][NextIsolation]_vars

\* changes of inStock and place-order calls, one after another
NextStock ==
  \/ (\E price \in Prices : CreateProduct(price)) /\ OneAtATime
  \/ (\E id \in ProductIds, inStock \in BOOLEAN : UpdateProductStock(id, inStock))
       /\ OneAtATime
  \/ (\E r \in Slots : PlaceOrderInvalid(r)) /\ OneAtATime
  \/ (\E r \in Slots : PlaceOrderCreateFails(r)) /\ OneAtATime
  \/ (\E r \in Slots : PlaceOrderCreate(r)) /\ OneAtATime
  \/ (\E r \in Slots, ok \in BOOLEAN : PlaceOrderItem(r, ok)) /\ OneAtATime
  \/ (\E r \in Slots, ok \in BOOLEAN : PlaceOrderClear(r, ok)) /\ OneAtATime

SpecStock == Init /\ [][NextStock]_vars

\* the cart routes, one call after another
NextCart ==
  \/ (\E price \in Prices : CreateProduct(price)) /\ OneAtATime
  \/ (\E r \in Slots : AddToCartSelectAny(r)) /\ OneAtATime
  \/ (\E r \in Slots : AddToCartWrite(r)) /\ OneAtATime
  \/ (\E sid \in Sessions, id \in CartItemIds, q \in UpdateQuantities :
        UpdateCartItem(sid, id, q)) /\ OneAtATime
  \/ (\E sid \in Sessions, id \in CartItemIds : RemoveFromCart(sid, id)) /\ OneAtATime
  \/ (\E sid \in Sessions : ClearCart(sid)) /\ OneAtATime

SpecCart == Init /\ [][NextCart]_vars

\* an orders row as a place-order call with an empty orderItems leaves it
storedOrder(id, totalAmount) ==
  [id |-> id, customerName |-> "alice", totalAmount |-> totalAmount,
   status |-> "pending", updated |-> FALSE]

\* the store is empty, or holds the orders of MaxStoredOrders earlier calls
InitStatus ==
  /\ products = {}
  /\ nextProductId = 1
  /\ cartItems = {}
  /\ nextCartItemId = 1
  /\ \/ orders = {} /\ nextOrderId = 1
     \/ /\ \E t \in [1..MaxStoredOrders -> Totals] :
              orders = {storedOrder(id, t[id]) : id \in 1..MaxStoredOrders}
        /\ nextOrderId = MaxStoredOrders + 1
  /\ orderItems = {}
  /\ nextOrderItemId = 1
  /\ req = [r \in Slots |-> IdleSlot]
  /\ res = NoResponse
  /\ acked = [s \in Sessions |-> [p \in ProductIds |-> [n |-> 0, sum |-> 0, last |-> NoCustomizations]]]
  /\ adminUsers = {}
  /\ nextAdminUserId = 1
  /\ notifications = {}
  /\ nextNotificationId = 1
  /\ seed = "idle"
  /\ query = NoQuery

\* the store holds the orders of MaxStoredOrders earlier calls
InitStored == InitStatus /\ orders # {} /\ \A o \in orders : o.totalAmount = 1999

\* the bodies of the place-order calls that are served among the other
\* calls: no line or one line, of the first product
TransitionBodies ==
  {b \in Bodies :
     /\ b.totalAmount = 1999
     /\ Len(b.orderItems) <= 1
     /\ \A k \in 1..Len(b.orderItems) :
          b.orderItems[k].productId = 1 /\ b.orderItems[k].quantity = 1}

\* the product edits, the cart calls, the place-order calls beside the
\* stored orders, and the order reads and status updates of admins; at most
\* one of the calls that await more than one statement is in flight.  The
\* products are created at 1999 and repriced to 2499, the cart calls are
\* those of session s1 for the first product and of session s2 by row id,
\* and the admins address the first stored order
NextTransitions ==
  \/ (\E price \in {1999} : CreateProduct(price)) /\ OneAtATime
  \/ (\E id \in ProductIds, price \in {2499} : UpdateProduct(id, price)) /\ OneAtATime
  \/ (\E id \in ProductIds : DeleteProduct(id)) /\ OneAtATime
  \/ (\E r \in Slots : AddToCartSelectFirst(r)) /\ OneAtATime
  \/ (\E r \in Slots : AddToCartWrite(r)) /\ OneAtATime
  \/ (\E sid \in {"s2"}, id \in CartItemIds, q \in UpdateQuantities :
        UpdateCartItem(sid, id, q)) /\ OneAtATime
  \/ (\E sid \in {"s2"}, id \in CartItemIds : RemoveFromCart(sid, id)) /\ OneAtATime
  \/ (\E sid \in Sessions : ClearCart(sid)) /\ OneAtATime
  \/ (\E r \in Slots : PlaceOrderInvalid(r)) /\ OneAtATime
  \/ (\E r \in Slots :
        PlaceOrderCreateFrom(r, MaxStoredOrders + MaxOrders, {"s1"}, TransitionBodies))
       /\ OneAtATime
  \/ (\E r \in Slots, ok \in BOOLEAN : PlaceOrderItem(r, ok)) /\ OneAtATime
  \/ (\E r \in Slots, ok \in BOOLEAN : PlaceOrderClear(r, ok)) /\ OneAtATime
  \/ (\E token \in Tokens : AdminGetOrders(token)) /\ OneAtATime
  \/ (\E token \in Tokens, id \in {1} : AdminGetOrder(token, id)) /\ OneAtATime
  \/ (\E token \in Tokens, id \in {1}, status \in Statuses :
        AdminUpdateOrderStatus(token, id, status)) /\ OneAtATime

SpecTransitions == InitStored /\ [][NextTransitions]_vars

\* add-to-cart calls with customizations, concurrently served
NextMerge ==
  \/ \E price \in Prices : CreateProduct(price)
  \/ \E r \in Slots : AddToCartSelectCustom(r)
  \/ \E r \in Slots : AddToCartWriteAcked(r)

SpecMerge == Init /\ [][NextMerge]_vars

\* admin-register calls, in any interleaving, and admin-login calls
NextAdmin ==
  \/ \E r \in Slots : RegisterSelect(r)
  \/ \E r \in Slots : RegisterInsert(r)
  \/ \E r \in Slots, username \in Usernames, password \in Passwords :
       LoginSelect(r, username, password)
  \/ \E r \in Slots : LoginCompare(r)

SpecAdmin == Init /\ [][NextAdmin]_vars

\* runs of the seeding script, one after another, while the server takes
\* product edits and admin-register calls: the script holds no lock and
\* opens no transaction, so the calls are served between its statements
\* (the register calls are served one at a time and carry one password)
NextSeed ==
  \/ SeedSelectProducts
  \/ SeedInsertProducts
  \/ SeedSelectAdmins
  \/ SeedInsertAdmin
  \/ \E price \in Prices : CreateProduct(price)
  \/ \E id \in ProductIds, price \in Prices : UpdateProduct(id, price)
  \/ \E id \in ProductIds : DeleteProduct(id)
  \/ (\E r \in Slots : RegisterSelectWith(r, {"hunter2"})) /\ OneAtATime
  \/ \E r \in Slots : RegisterInsert(r)

SpecSeed == Init /\ [][NextSeed]_vars

\* the queries of the client
NextQuery ==
  \/ \E on401 \in UnauthorizedBehavior : QueryStart(on401)
  \/ \E reply \in Replies : QueryFetch(reply)
  \/ QueryRetry

SpecQuery == Init /\ [][NextQuery]_vars

\* the operations behind authenticateAdmin, called with every kind of
\* token; the products are created at 1999 and repriced to 2499
NextGate ==
  \/ \E token \in Tokens, price \in {1999} : AdminCreateProduct(token, price)
  \/ \E token \in Tokens, id \in ProductIds, price \in {2499} :
       AdminUpdateProduct(token, id, price)
  \/ \E token \in Tokens, id \in ProductIds : AdminDeleteProduct(token, id)
  \/ \E token \in Tokens : AdminGetOrders(token)
  \/ \E token \in Tokens, id \in OrderIds : AdminGetOrder(token, id)
  \/ \E token \in Tokens, id \in OrderIds, status \in Statuses :
       AdminUpdateOrderStatus(token, id, status)
  \/ \E token \in Tokens, body \in Notices : AdminCreateNotification(token, body)
  \/ \E token \in Tokens : AdminGetNotifications(token)

SpecGate == InitStored /\ [][NextGate]_vars

\* ------------------------------------------------------------------ claims

RECURSIVE SumQuantity(_)
SumQuantity(rows) ==
  IF rows = {} THEN 0
  ELSE LET c == CHOOSE x \in rows : TRUE IN c.quantity + SumQuantity(rows \ {c})

RECURSIVE SumLines(_)
SumLines(rows) ==
  IF rows = {} THEN 0
  ELSE LET i == CHOOSE x \in rows : TRUE IN i.price * i.quantity + SumLines(rows \ {i})

ItemsOf(orderId) == {i \in orderItems : i.orderId = orderId}

\* C1: after add-to-cart calls for one (session, product) pair served one
\* after another, the pair has no row when none was answered 201, and else
\* exactly one row whose quantity is the sum of the quantities added
C1_MergeInvariant ==
  \A sid \in Sessions, pid \in ProductIds :
    NoneInFlight =>
      IF acked[sid][pid].n = 0
        THEN CartRows(sid, pid) = {}
        ELSE \E c \in CartRows(sid, pid) :
               /\ CartRows(sid, pid) = {c}
               /\ c.quantity = acked[sid][pid].sum

\* four calls of one pair were answered, and the row has their sum
C1_Witness ==
  \E sid \in Sessions, pid \in ProductIds :
    /\ NoneInFlight
    /\ acked[sid][pid].n = MaxMergedQuantity
    /\ \E c \in CartRows(sid, pid) : c.quantity = acked[sid][pid].sum

\* C2: whatever the interleaving of the add-to-cart calls of a pair, once
\* they are all answered the quantity recorded for the pair is the sum of
\* the quantities added (no update is lost)
C2_NoLostUpdate ==
  NoneInFlight =>
    \A sid \in Sessions, pid \in ProductIds :
      SumQuantity(CartRows(sid, pid)) = acked[sid][pid].sum

\* C3: there is at most one cart_items row per (sessionId, productId)
C3_CartUnique ==
  \A sid \in Sessions, pid \in ProductIds : Cardinality(CartRows(sid, pid)) <= 1

\* C4: after a place-order call was answered with an error, no order of
\* that call is visible to getOrders and no order_items row of it is stored
C4_NoOrderOfFailedCall ==
  (res.op = "order" /\ res.status # 201) =>
    /\ \A o \in getOrders : o.id # res.orderId
    /\ ItemsOf(res.orderId) = {}

\* a step of a place-order call: of a slot that serves one, or the call is
\* answered before its first await
PlaceOrderStep ==
  \/ \E r \in Slots : req'[r] # req[r] /\ (req[r].op = "order" \/ req'[r].op = "order")
  \/ req' = req /\ res' # res /\ res'.op = "order"

\* the step of slot r that answers its place-order call 201
Answers201(r) ==
  /\ req[r].op = "order"
  /\ req'[r].pc = "idle"
  /\ res'.op = "order"
  /\ res'.status = 201
  /\ res'.orderId = req[r].orderId

\* C5: no step of a place-order call changes the cart, but the one that
\* answers 201, which is taken with the header and every line written and
\* removes the rows of the caller's session; so a call that ends in an error
\* leaves the cart as it was
C5_CartKeptOnError ==
  [][PlaceOrderStep =>
       \/ cartItems' = cartItems
       \/ \E r \in Slots :
            /\ Answers201(r)
            /\ \E o \in orders : o.id = req[r].orderId
            /\ Cardinality(ItemsOf(req[r].orderId)) = Len(req[r].lines)
            /\ \A c \in cartItems' : c.sessionId # req[r].sessionId]_vars

C5_Witness ==
  /\ res.op = "order"
  /\ res.status # 201
  /\ res.orderId # 0
  /\ \A sid \in Sessions : \E c \in cartItems : c.sessionId = sid

\* C6: a place-order call is answered 201 only with its header written,
\* every line of its body written and the cart of its session empty; a call
\* answered before its first await is answered with an error
C6_NoPartialSuccess ==
  [][/\ \A r \in Slots :
          (req[r].op = "order" /\ req'[r].pc = "idle" /\ res'.status = 201) =>
            /\ \E o \in orders' : o.id = req[r].orderId
            /\ Cardinality({i \in orderItems' : i.orderId = req[r].orderId})
                 = Len(req[r].lines)
            /\ \A c \in cartItems' : c.sessionId # req[r].sessionId
     /\ (req' = req /\ res' # res /\ res'.op = "order") => res'.status # 201]_vars

C6_Witness ==
  /\ res.op = "order"
  /\ res.status = 201
  /\ Cardinality(ItemsOf(res.orderId)) = MaxLines

\* C7: the totalAmount of an order whose place-order call was answered 201
\* is the sum of price * quantity over its order_items rows
C7_SumInvariant ==
  \A o \in orders :
    (res.op = "order" /\ res.status = 201 /\ res.orderId = o.id) =>
      o.totalAmount = SumLines(ItemsOf(o.id))

\* C8: the price of an order_items row, when it is written, is the price
\* the catalog holds for its product
C8_AuthoritativePrice ==
  [][\A i \in orderItems' \ orderItems :
       \A p \in getProduct(i.productId) : i.price = p.price]_vars

\* what getOrders returns of the amounts: per order its totalAmount and
\* the price of each of its items
OrderAmounts ==
  {[id |-> o.id, totalAmount |-> o.totalAmount,
    prices |-> {<<v.id, v.price>> : v \in o.orderItems}] : o \in getOrders}

PriceChanged ==
  \E p \in products, p2 \in products' : p.id = p2.id /\ p.price # p2.price

\* C9: a step that changes the price of a product changes no orders row,
\* no order_items row, and no totalAmount or item price that getOrder and
\* getOrders return
C9_SnapshotInvariant ==
  [][PriceChanged =>
       /\ orders' = orders
       /\ orderItems' = orderItems
       /\ OrderAmounts' = OrderAmounts]_vars

\* the call answered last is a product update that changed a price, no
\* call is in flight, so every order was placed before it, and the product
\* it repriced, the one product ever updated, is the product of an order
\* item, which keeps the price it was written with
C9_Witness ==
  /\ NoneInFlight
  /\ res.op = "product" /\ res.status = 200 /\ res.prev = "price"
  /\ Cardinality({p \in products : p.updated}) = 1
  /\ \E o \in getOrders : \E v \in o.orderItems :
       v.product.updated /\ v.price # v.product.price

\* C10: the step that answers a place-order call of session S 201 leaves
\* no cart row of S and leaves the rows of every other session as they were
C10_ClearOnCheckout ==
  [][\A r \in Slots :
       Answers201(r) =>
         /\ \A c \in cartItems' : c.sessionId # req[r].sessionId
         /\ \A sid \in Sessions \ {req[r].sessionId} :
              {c \in cartItems' : c.sessionId = sid} = {c \in cartItems : c.sessionId = sid}]_vars

\* the first cart row is of the last product, so that every product was in
\* the catalog from the first INSERT on and no INSERT was rejected: the
\* second row was written, and the checkout deleted it and kept the first
C10_Witness ==
  /\ res.op = "order"
  /\ res.status = 201
  /\ nextCartItemId = MaxCartItems + 1
  /\ Cardinality(cartItems) = 1
  /\ \E c \in cartItems : c.id = 1 /\ c.productId = MaxProducts

\* C11: the cart clear of a place-order call answered 201 deletes no cart
\* row that was inserted while the call was in progress, unless the product
\* of the row is a line of the order
C11_CheckoutIsolation ==
  [][\A r \in Slots :
       Answers201(r) =>
         \A c \in cartItems \ cartItems' :
           c.id >= req[r].cartSerial =>
             \E i \in ItemsOf(req[r].orderId) : i.productId = c.productId]_vars

\* the lines of the place-order call that slot r serves in this step
LinesOf(r) == IF req[r].op = "order" THEN req[r].lines ELSE req'[r].lines

\* a line whose product is not in the catalog, or is there with inStock false
BadLine(line) ==
  \/ getProduct(line.productId) = {}
  \/ \E p \in getProduct(line.productId) : ~p.inStock

\* C12: a place-order call with a line whose product is not in the catalog
\* or is out of stock writes no orders row and no order_items row and leaves
\* the cart as it was
C12_NoPartialOrders ==
  [][\A r \in Slots :
       ((req[r].op = "order" \/ req'[r].op = "order")
          /\ \E k \in 1..Len(LinesOf(r)) : BadLine(LinesOf(r)[k])) =>
         /\ orders' = orders
         /\ orderItems' = orderItems
         /\ cartItems' = cartItems]_vars

\* C13: an orders row has status "pending" when it is created
C13_CreatedPending ==
  [][\A o \in orders' :
       (\A x \in orders : x.id # o.id) => o.status = "pending"]_vars

\* C14: DELETE /api/cart/:id is answered 204 whether or not a row has the
\* id; of the items that GET /api/cart answers to each session, the one with
\* the id is gone and every other one is as it was; nothing changes when no
\* row has the id, and removing the id once more would change nothing
C14_IdempotentRemoval ==
  [][\A sid \in Sessions, id \in CartItemIds :
       RemoveFromCart(sid, id) =>
         /\ res'.status = 204
         /\ \A s \in Sessions :
              /\ \A v \in getCartItems(s)' : v.id # id /\ v \in getCartItems(s)
              /\ \A v \in getCartItems(s) : v.id # id => v \in getCartItems(s)'
         /\ (\A s \in Sessions : \A v \in getCartItems(s) : v.id # id) =>
              cartItems' = cartItems
         /\ removeFromCart(id)' = cartItems']_vars

\* the removal answered last found no row of its id, and the cart has a row
C14_Witness ==
  /\ res.op = "remove"
  /\ res.status = 204
  /\ res.prev = "absent"
  /\ cartItems # {}

\* the cart rows of the sessions other than sid
RowsOfOthers(sid) == {c \in cartItems : c.sessionId # sid}

\* C15: DELETE /api/cart of session S is answered 204, leaves no row of S
\* and leaves the rows of every other session as they were; a second clear
\* of S changes nothing
C15_Clear ==
  [][\A sid \in Sessions :
       ClearCart(sid) =>
         /\ res'.status = 204
         /\ getCartItems(sid)' = {}
         /\ \A s \in Sessions \ {sid} : getCartItems(s)' = getCartItems(s)
         /\ getCartItems(sid) = {} => cartItems' = cartItems
         /\ clearCart(sid)' = cartItems']_vars

\* the clear answered last found no row of its session, and the other
\* session has the rows it had
C15_Witness ==
  /\ res.op = "clear"
  /\ res.status = 204
  /\ res.prev = "absent"
  /\ \E sid \in Sessions : Cardinality(getCartItems(sid)) = MaxCartItems

\* a step of a cart call of a client with session sid
CartCallOf(sid) ==
  \/ \E r \in Slots : req[r].op = "add" /\ req[r].sessionId = sid /\ AddToCartWrite(r)
  \/ \E id \in CartItemIds, q \in UpdateQuantities : UpdateCartItem(sid, id, q)
  \/ \E id \in CartItemIds : RemoveFromCart(sid, id)
  \/ ClearCart(sid)

\* C16: a cart call of session A changes no cart row of another session
C16_SessionScoping ==
  [][\A sid \in Sessions : CartCallOf(sid) => RowsOfOthers(sid)' = RowsOfOthers(sid)]_vars

\* C17: every cart row has a quantity of at least 1
C17_PositiveQuantities == \A c \in cartItems : c.quantity >= 1

\* C18: PUT /api/cart/:id with an id that no row has is answered with an
\* error and changes no row; with the id of a row it sets the quantity of
\* that row and changes nothing else
C18_UpdateQuantity ==
  [][\A sid \in Sessions, id \in CartItemIds, q \in UpdateQuantities :
       UpdateCartItem(sid, id, q) =>
         IF \A c \in cartItems : c.id # id
           THEN res'.status >= 400 /\ cartItems' = cartItems
           ELSE cartItems' =
                  {IF c.id = id THEN [c EXCEPT !.quantity = q] ELSE c : c \in cartItems}]_vars

\* C19: POST /api/cart with a productId that is not the id of a product is
\* answered 404 and changes no cart row, and every cart row has the id of a
\* product that was created
C19_AddItemNotFound ==
  [][\A r \in Slots :
       (AddToCartWrite(r) /\ getProduct(req[r].item.productId) = {}) =>
         /\ res'.status = 404
         /\ cartItems' = cartItems
         /\ \A c \in cartItems' : c.productId \in 1..(nextProductId - 1)]_vars

\* C20: every step keeps each orders row with its customer fields and its
\* totalAmount; a step that changes an orders row is a status update, which
\* changes the row of the id it addresses and no other, and no order_items row
C20_HeaderImmutability ==
  [][/\ \A o \in orders : \E o2 \in orders' :
          /\ o2.id = o.id
          /\ o2.customerName = o.customerName
          /\ o2.totalAmount = o.totalAmount
     /\ (\E o \in orders : o \notin orders') =>
          \E id \in OrderIds, status \in Statuses :
            /\ UpdateOrderStatus(id, status)
            /\ orderItems' = orderItems
            /\ \A o \in orders : o.id # id => o \in orders']_vars

\* the call answered last is a status update that changed the status of
\* the first order, after an order was placed beside the stored ones, a
\* product was repriced and a cart row was written; the other stored order
\* is as it was
C20_Witness ==
  /\ NoneInFlight
  /\ res.op = "status" /\ res.status = 200
  /\ \E o \in orders : o.id = res.orderId /\ o.updated /\ o.status # res.prev
  /\ \E o \in orders : o.id # res.orderId /\ o.id <= MaxStoredOrders /\ ~o.updated
  /\ \E o \in orders : o.id > MaxStoredOrders
  /\ \E p \in products : p.updated
  /\ cartItems # {}

\* a token that the login route issued, by jwt.sign for a username, and that
\* has not expired since
ValidToken(token) == \E username \in Usernames : token = sign(username)

\* C21: a step in which the status of an order changes is a status update
\* of that order by a request with a valid admin token
C21_NoAutomaticTransitions ==
  [][\A o \in orders : \A o2 \in orders' :
       (o2.id = o.id /\ o2.status # o.status) =>
         \E token \in Tokens, status \in Statuses :
           ValidToken(token) /\ AdminUpdateOrderStatus(token, o.id, status)]_vars

\* an order was placed beside the stored ones, one of them completed by
\* an admin and one pending as before, with a product repriced, one deleted
\* and a cart row written since the checkout
C21_Witness ==
  /\ \E o \in orders : o.id > MaxStoredOrders /\ ItemsOf(o.id) # {}
  /\ \E o \in orders : o.status = "completed" /\ o.updated
  /\ \E o \in orders : o.status = "pending" /\ o.id <= MaxStoredOrders
  /\ \E p \in products : p.updated
  /\ nextProductId > Cardinality(products) + 1
  /\ cartItems # {}
  /\ res.op = "update"

\* C22: a status update of an existing order is answered 200 and leaves
\* the order with the status given, whatever status it had
C22_UnconditionalOverwrite ==
  [][\A id \in {res'.orderId} \cap OrderIds, token \in Tokens, status \in Statuses :
       (ValidToken(token) /\ AdminUpdateOrderStatus(token, id, status)
          /\ getOrder(id) # {}) =>
         /\ res'.status = 200
         /\ getOrder(id)' # {}
         /\ \A o \in getOrder(id)' : o.status = status
         /\ \A o \in getOrders' : o.id = id => o.status = status]_vars

C22_Witness ==
  /\ res.op = "status"
  /\ res.status = 200
  /\ res.prev \in {"completed", "cancelled"}
  /\ \E o \in orders : o.id = res.orderId /\ o.status # res.prev

\* C23: getOrder and getOrders return, for every order, as many items as
\* the order has order_items rows
C23_ReadCompleteness ==
  /\ \A o \in getOrders : Cardinality(o.orderItems) = Cardinality(ItemsOf(o.id))
  /\ \A x \in orders : \A o \in getOrder(x.id) :
       Cardinality(o.orderItems) = Cardinality(ItemsOf(x.id))

\* the step is one of the operations behind authenticateAdmin, called with
\* this token
GateCall(token) ==
  \/ \E price \in Prices : AdminCreateProduct(token, price)
  \/ \E id \in ProductIds, price \in Prices : AdminUpdateProduct(token, id, price)
  \/ \E id \in ProductIds : AdminDeleteProduct(token, id)
  \/ AdminGetOrders(token)
  \/ \E id \in OrderIds : AdminGetOrder(token, id)
  \/ \E id \in OrderIds, status \in Statuses : AdminUpdateOrderStatus(token, id, status)
  \/ \E body \in Notices : AdminCreateNotification(token, body)
  \/ AdminGetNotifications(token)

\* the request is answered 401 and products, orders and notifications are
\* as they were
Refused == res'.status = 401 /\ UNCHANGED <<products, orders, notifications>>

\* C24: a catalog mutation, an order read, an order status update or a
\* notification create or list that carries no token or an invalid one is
\* answered 401 and leaves products, orders and notifications unchanged (a
\* step that is not such a refusal is no call with such a token)
C24_AdminGating ==
  [][~Refused => \A token \in Tokens : ~ValidToken(token) => ~GateCall(token)]_vars

\* a request was refused in a state in which valid requests had written
\* products, an order status and a notification
C24_Witness ==
  /\ res.status = 401
  /\ products # {}
  /\ notifications # {}
  /\ \E o \in orders : o.status = "completed"

\* the step is the UPDATE of an add-to-cart call that merges into the row c
MergeInto(r, c) ==
  /\ AddToCartWriteAcked(r)
  /\ req[r].existing # NoRow
  /\ c.id = req[r].existing.id

\* C25 as stated: a merge leaves the row with the customizations of the new
\* call and the quantity incremented
C25_MergeOverwritesCustomizations ==
  [][\A r \in Slots : \A c \in cartItems : MergeInto(r, c) =>
       \E c2 \in cartItems' :
         /\ c2.id = c.id
         /\ c2.quantity = c.quantity + req[r].item.quantity
         /\ c2.customizations = req[r].item.customizations]_vars

\* C25 amended: in whatever interleaving the calls are served, a merge
\* leaves the row with the customizations it had, and with the quantity
\* that the call read from the row plus the quantity of the call (the
\* quantity the row has by then when no other call wrote it meanwhile)
C25_MergeKeepsCustomizations ==
  [][\A r \in Slots : \A c \in cartItems : MergeInto(r, c) =>
       \E c2 \in cartItems' :
         /\ c2.id = c.id
         /\ c2.sessionId = c.sessionId /\ c2.productId = c.productId
         /\ c2.quantity = req[r].existing.quantity + req[r].item.quantity
         /\ (c.quantity = req[r].existing.quantity =>
               c2.quantity = c.quantity + req[r].item.quantity)
         /\ c2.customizations = c.customizations]_vars

\* three calls of a pair were answered 201, the last two merged into the
\* row of the first, both from the quantity they read before either wrote;
\* the last one sent customizations other than those of the row, which has
\* the customizations it had
C25_Witness ==
  \E sid \in Sessions, pid \in ProductIds : \E c \in CartRows(sid, pid) :
    /\ NoneInFlight
    /\ CartRows(sid, pid) = {c}
    /\ acked[sid][pid].n = 3
    /\ c.quantity < acked[sid][pid].sum
    /\ acked[sid][pid].last \notin {NoCustomizations, c.customizations}
    /\ c.customizations # NoCustomizations
    /\ res.op = "add" /\ res.status = 201

\* a line item without a required field
MalformedLine(line) == line.quantity = Missing \/ line.price = Missing

\* C26: a place-order call with a malformed line item writes no orders row
\* and no order_items row, leaves the cart as it was, and is answered 400
C26_ValidationBeforeEffect ==
  [][\A r \in Slots :
       ((req[r].op = "order" \/ req'[r].op = "order")
          /\ \E k \in 1..Len(LinesOf(r)) : MalformedLine(LinesOf(r)[k])) =>
         /\ orders' = orders
         /\ orderItems' = orderItems
         /\ cartItems' = cartItems
         /\ (req'[r].op # "order" => res'.status = 400)]_vars

\* C27: every order_items row has the id of an orders row; a row written
\* by a place-order call has the id of the orders row the same call
\* wrote, whatever orderId its line carries
C27_LineItemsOfOwnOrder ==
  [][/\ \A i \in orderItems' : \E o \in orders' : o.id = i.orderId
     /\ \A r \in Slots :
          /\ (req[r].op # "order" /\ req'[r].op = "order") =>
                \E o \in orders' \ orders : o.id = req'[r].orderId
          /\ req[r].pc = "order_items" =>
                \A i \in orderItems' \ orderItems : i.orderId = req[r].orderId]_vars

\* the row of a line that names another order, one that exists, was written
C27_Witness ==
  \E r \in Slots :
    /\ req[r].pc = "order_clear"
    /\ \E k \in 1..Len(req[r].lines) : req[r].lines[k].orderId \notin {Missing, req[r].orderId}
    /\ \E o \in orders : o.id = req[r].lines[1].orderId
    /\ ItemsOf(req[r].orderId) # {}

\* the step is a step of an admin-register call for this username
RegisterStep(username) ==
  \/ \E r \in Slots : RegisterInsert(r) /\ req[r].user.username = username
  \/ \E r \in Slots : RegisterSelect(r) /\
       (req'[r].user.username = username \/ (res' # res /\ res'.prev = username))

\* C28: no two admin_users rows have the same username; a step of a
\* register call for a username that a row has writes no row, changes no
\* row, and answers, when it answers, with an error
C28_UsernameUnique ==
  [][/\ \A a \in adminUsers', b \in adminUsers' : a.username = b.username => a = b
     /\ \A username \in Usernames :
          (RegisterStep(username) /\ \E a \in adminUsers : a.username = username) =>
            /\ adminUsers' = adminUsers
            /\ res'.op = "register" /\ res'.status \in {400, 500}]_vars

\* a register call found the username free, and was refused by the store
\* because another call had written a row of that username meanwhile
C28_Witness ==
  /\ res.op = "register" /\ res.status = 500
  /\ \E a \in adminUsers : a.username = res.prev
  /\ Cardinality(adminUsers) = 1
  /\ nextAdminUserId = 3

\* the username names a row whose stored hash is that of the password
Credentials(username, password) ==
  \E a \in adminUsers : a.username = username /\ a.password = <<"bcrypt", password>>

\* the one response of a login that is refused
InvalidCredentials ==
  [op |-> "login", status |-> 401, orderId |-> 0, token |-> NoToken, prev |-> ""]

\* C29: a login call is answered with a token, one that verifies and names
\* the username, when the username names a row and the password matches its
\* hash; else it is answered 401 with no token, the same response for an
\* unknown username and for a wrong password; no step of a login call
\* changes stored state
C29_Login ==
  [][\A r \in Slots :
       /\ \A username \in Usernames, password \in Passwords :
            LoginSelect(r, username, password) =>
              /\ UNCHANGED <<store, admin>>
              /\ IF \E a \in adminUsers : a.username = username
                   THEN res' = res /\ req'[r].op = "login"
                   ELSE res' = InvalidCredentials /\ req' = req
       /\ LoginCompare(r) =>
            /\ UNCHANGED <<store, admin>>
            /\ IF Credentials(req[r].user.username, req[r].user.password)
                 THEN /\ res'.status = 200
                      /\ authenticateAdmin(res'.token)
                      /\ res'.token.username = req[r].user.username
                 ELSE res' = InvalidCredentials]_vars

\* a login was refused for its password: every username has a row
C29_Witness ==
  /\ res = InvalidCredentials
  /\ \A username \in Usernames : \E a \in adminUsers : a.username = username

\* the products and the admin users a run of the script leaves when it
\* starts with these
Seeded(ps, nextP, as, nextA) ==
  <<IF needsSampleProducts(ps) THEN ps \cup sampleProducts(nextP) ELSE ps,
    IF needsDefaultAdmin(as) THEN as \cup {defaultAdmin(nextA)} ELSE as>>

\* C30: a step of the seeding script inserts products only into an empty
\* products table and an admin only into an empty admin_users table, changes
\* and removes no row, and leaves no two rows with one id or one username;
\* a run that ends leaves tables that one more run would leave as they are
\* (violated: the script reads, and then writes what it decided on the
\* read, while the server writes the same tables)
C30_SeedingIdempotent ==
  [][seed' # seed =>
       /\ products \subseteq products' /\ adminUsers \subseteq adminUsers'
       /\ products' # products => products = {}
       /\ adminUsers' # adminUsers => adminUsers = {}
       /\ \A p \in products', q \in products' : p.id = q.id => p = q
       /\ \A a \in adminUsers', b \in adminUsers' : a.username = b.username => a = b
       /\ seed' = "idle" =>
            /\ products' # {} /\ adminUsers' # {}
            /\ Seeded(products', nextProductId', adminUsers', nextAdminUserId')
                 = <<products', adminUsers'>>]_vars

\* the query failed with this outcome of fetch: there is no response, or
\* one that is not ok
Failing(reply) == reply.failed \/ reply.status \notin 200..299

\* C31: a query that fails with a 401 response is not retried, and with
\* on401 = returnNull it yields null and no error; a query that fails in
\* another way is retried while fewer than 3 failures came before, and
\* else ends with the error; no query fails more than 3 times and is retried
C31_RetryPolicy ==
  [][\A reply \in Replies : (QueryFetch(reply) /\ Failing(reply)) =>
       /\ query'.failureCount <= 3
       /\ IF reply.status = 401
            THEN /\ query'.pc = "done"
                 /\ IF query.on401 = "returnNull"
                      THEN query'.data = "null" /\ ~query'.error.thrown
                      ELSE query'.error.thrown
            ELSE IF query.failureCount < 3
              THEN query'.pc = "waiting" /\ query'.failureCount = query.failureCount + 1
              ELSE query'.pc = "done" /\ query'.error.thrown]_vars

=============================================================================
